---- MODULE Spec2Model ----
(***************************************************************************)
(* Model of server.js: the CareStack relay.  One in-memory token cache,    *)
(* getAccessToken, and the handlers of /health, /api/token and             *)
(* /api/find-slot.  Node runs the code between two awaits without          *)
(* interruption, so every action below is one such run of one handler:     *)
(* from the arrival of a request or the settling of the promise it awaits  *)
(* up to the next await or to the response.                                *)
(***************************************************************************)
EXTENDS Integers, FiniteSets, Sequences, TLC

\* ------------------------------------------------------------------ bounds
MaxTicks == 2       \* how many times the clock advances
StartMs == 1000000  \* Date.now() when the process starts

\* ------------------------------------------------------- program constants
MarginMs == 60000           \* server.js:36  60_000
DefaultExpiresIn == 300     \* server.js:71  json.expires_in || 300
MsPerSecond == 1000         \* server.js:73  expires_in * 1000
StatusBadRequest == 400     \* server.js:96
StatusProxyError == 500     \* server.js:83, server.js:118
StatusOk == 200             \* express default status of res.json

TickMs == 2 * MarginMs      \* the clock advances two margins at a time

\* the handlers that can be in flight at the same time
Reqs == {1, 2}

\* JavaScript values that are falsy in a condition
Null == "<null>"
Undefined == "<undefined>"
Truthy(v) == v \notin {Null, Undefined, ""}

\* a || b
OrElse(a, b) == IF Truthy(a) THEN a ELSE b

\* ------------------------------------------------------------ configuration
DefaultTokenUrl == "https://id.carestack.ie/connect/token"
DefaultClientId == "dentaltech_api_client"
JsonContentType == "application/json; charset=utf-8"

EnvAllSet ==
    [CS_TOKEN_URL |-> "https://token.example/connect/token", CS_CLIENT_ID |-> "client",
     CS_CLIENT_SECRET |-> "secret", CS_USERNAME |-> "user", CS_PASSWORD |-> "pass"]

\* token URL and client id left to their defaults
EnvDefaults ==
    [EnvAllSet EXCEPT !.CS_TOKEN_URL = Undefined, !.CS_CLIENT_ID = Undefined]

\* process.env as the process may find it: everything set, one of the three
\* credentials unset, or token URL and client id unset
Environments ==
    { EnvAllSet,
      [EnvAllSet EXCEPT !.CS_CLIENT_SECRET = Undefined],
      [EnvAllSet EXCEPT !.CS_USERNAME = Undefined],
      [EnvAllSet EXCEPT !.CS_PASSWORD = ""],
      EnvDefaults }

tokenUrl(e) == OrElse(e.CS_TOKEN_URL, DefaultTokenUrl)
client_id(e) == OrElse(e.CS_CLIENT_ID, DefaultClientId)
client_secret(e) == OrElse(e.CS_CLIENT_SECRET, "")
username(e) == OrElse(e.CS_USERNAME, "")
password(e) == OrElse(e.CS_PASSWORD, "")

\* the password left out of the test
CredentialsMissing_NoPassword(e) ==
    ~Truthy(client_id(e)) \/ ~Truthy(client_secret(e)) \/ ~Truthy(username(e))

\* if (!client_id || !client_secret || !username || !password)
CredentialsMissing(e) ==
    \/ ~Truthy(client_id(e))
    \/ ~Truthy(client_secret(e))
    \/ ~Truthy(username(e))
    \/ ~Truthy(password(e))

\* the POST that getAccessToken sends
TokenRequest(e) ==
    [url |-> tokenUrl(e), grant_type |-> "password", client_id |-> client_id(e),
     client_secret |-> client_secret(e), username |-> username(e),
     password |-> password(e)]

NoTokenRequest ==
    [url |-> "", grant_type |-> "", client_id |-> "", client_secret |-> "",
     username |-> "", password |-> ""]

\* ------------------------------------------------------------------ inputs
Params == {"fromDate", "locationId", "providerId", "productionTypeId"}

\* req.query of a find-slot request, as the set of parameters that carry a value
Queries == {Params, Params \ {"providerId"}, Params \ {"fromDate"}}

\* how the fetch of the token endpoint settles: a transport error, or the
\* status line of a response
TokenStatuses == {200, 401}

\* the JSON body of a token response
\* (access_token and expires_in may each be absent from it)
AccessTokens == {"tokA", "tokB"}
TokenJsons ==
    [access_token : AccessTokens, has_expires_in : {TRUE}, expires_in : {0, 150}]
    \cup [access_token : AccessTokens \cup {Undefined}, has_expires_in : {FALSE},
          expires_in : {0}]

\* the status line and headers of a response of the scheduling endpoint
UpstreamHeads ==
    [status : {200, 404}, content_type : {Null, "text/html"}]

UpstreamBodies == {"{\"slots\":[]}", "oops"}

\* ------------------------------------------------------------------- state
VARIABLES
    env,          \* process.env
    clock,        \* Date.now()
    tokenCache,   \* { access_token, expires_at }
    up,           \* the process is running
    lastTokenRequest,  \* the last request sent to the token endpoint
    pc,           \* where each handler stands
    endpoint,     \* the route of the request a handler serves
    query,        \* req.query of a find-slot request
    token,        \* what getAccessToken returned to the handler
    failure,      \* the error thrown to the handler, if any
    tokenCalls,   \* calls to the token endpoint made by the getAccessToken
                  \* call the handler has started and not yet resumed from
    schedCalls,   \* calls to the scheduling endpoint made for the request
    bearer,       \* the Authorization header of the scheduling call in flight
    tokenResp,    \* resp in getAccessToken
    upstream,     \* upstream in the find-slot handler
    response,     \* what res has sent
    responses,    \* how many responses res has sent
    returnedExpiry  \* the expires_at that was in Token State with the token
                    \* when getAccessToken returned it to the handler

vars == <<env, clock, tokenCache, up, lastTokenRequest, pc, endpoint, query, token,
          failure, tokenCalls, schedCalls, bearer, tokenResp, upstream, response,
          responses, returnedExpiry>>

NoFailure == "none"
NoQuery == {}
NoStatus == 0
NoUpstream == [status |-> NoStatus, content_type |-> Null]
NoResponse ==
    [status |-> NoStatus, content_type |-> Null, body |-> "",
     access_token |-> Null, expires_at |-> 0]

\* let tokenCache = { access_token: null, expires_at: 0 }
EmptyCache == [access_token |-> Null, expires_at |-> 0]

Init ==
    /\ env \in Environments
    /\ clock = StartMs
    /\ tokenCache = EmptyCache
    /\ up = TRUE
    /\ lastTokenRequest = NoTokenRequest
    /\ pc = [r \in Reqs |-> "idle"]
    /\ endpoint = [r \in Reqs |-> "none"]
    /\ query = [r \in Reqs |-> NoQuery]
    /\ token = [r \in Reqs |-> Null]
    /\ failure = [r \in Reqs |-> NoFailure]
    /\ tokenCalls = [r \in Reqs |-> 0]
    /\ schedCalls = [r \in Reqs |-> 0]
    /\ bearer = [r \in Reqs |-> Null]
    /\ tokenResp = [r \in Reqs |-> NoStatus]
    /\ upstream = [r \in Reqs |-> NoUpstream]
    /\ response = [r \in Reqs |-> NoResponse]
    /\ responses = [r \in Reqs |-> 0]
    /\ returnedExpiry = [r \in Reqs |-> 0]

\* ----------------------------------------------------------- pure helpers
\* the comparison turned round
CacheValid_Inverted(cache, now) ==
    Truthy(cache.access_token) /\ now > cache.expires_at - MarginMs

\* the margin left out
CacheValid_NoMargin(cache, now) ==
    Truthy(cache.access_token) /\ now < cache.expires_at

\* if (tokenCache.access_token && now < tokenCache.expires_at - 60_000)
CacheValid(cache, now) ==
    Truthy(cache.access_token) /\ now < cache.expires_at - MarginMs

\* the status of the response never looked at
RespOk_Unchecked(status) == TRUE

\* only a server error taken as a failure
RespOk_NotServerError(status) == status < 500

\* resp.ok
RespOk(status) == status >= 200 /\ status <= 299

\* the default left out
ExpiresIn_NoDefault(json) == json.expires_in

\* Number(json.expires_in || 300)
ExpiresIn(json) ==
    IF json.has_expires_in /\ json.expires_in # 0
    THEN json.expires_in
    ELSE DefaultExpiresIn

\* a token that expires sooner than the cached one is not stored
StoredCache_KeepLater(json, now) ==
    IF tokenCache.expires_at > now + ExpiresIn(json) * MsPerSecond
    THEN tokenCache
    ELSE [access_token |-> json.access_token,
          expires_at |-> now + ExpiresIn(json) * MsPerSecond]

\* tokenCache.access_token = json.access_token;
\* tokenCache.expires_at = Date.now() + expires_in * 1000
StoredCache(json, now) ==
    [access_token |-> json.access_token,
     expires_at |-> now + ExpiresIn(json) * MsPerSecond]

\* if (!fromDate || !locationId || !providerId || !productionTypeId)
ParamsMissing(q) == \E p \in Params : p \notin q

\* the upstream content type never forwarded
ContentType_AlwaysJson(head) == JsonContentType

\* upstream.headers.get('content-type') || 'application/json; charset=utf-8'
ContentType(head) == OrElse(head.content_type, JsonContentType)

\* res.json({ ok: true, time: ... })
HealthResponse ==
    [status |-> StatusOk, content_type |-> JsonContentType, body |-> "{ok,time}",
     access_token |-> Null, expires_at |-> 0]

\* res.json({ access_token: token, expires_at: tokenCache.expires_at })
TokenResponse(tok, cache) ==
    [status |-> StatusOk, content_type |-> JsonContentType,
     body |-> "{access_token,expires_at}",
     access_token |-> tok, expires_at |-> cache.expires_at]

\* res.status(500).json({ error: String(e) })
TokenErrorResponse ==
    [status |-> StatusProxyError, content_type |-> JsonContentType,
     body |-> "{error}", access_token |-> Null, expires_at |-> 0]

\* res.status(400).json({ error: 'Missing required query params: ...' })
BadRequestResponse ==
    [status |-> StatusBadRequest, content_type |-> JsonContentType,
     body |-> "{error}", access_token |-> Null, expires_at |-> 0]

\* res.status(500) left out of the catch block
ProxyFailureResponse_NoStatus ==
    [status |-> StatusOk, content_type |-> JsonContentType,
     body |-> "{error,detail}", access_token |-> Null, expires_at |-> 0]

\* res.status(500).json({ error: 'Proxy failure', detail: String(err) })
ProxyFailureResponse ==
    [status |-> StatusProxyError, content_type |-> JsonContentType,
     body |-> "{error,detail}", access_token |-> Null, expires_at |-> 0]

\* res.status(upstream.status); res.setHeader('content-type', ct); res.send(text)
RelayResponse(head, text) ==
    [status |-> head.status, content_type |-> ContentType(head), body |-> text,
     access_token |-> Null, expires_at |-> 0]

\* the token read from the cache again when the header is built
Authorization_FromCache(tok) == "Bearer " \o tokenCache.access_token

\* Authorization: `Bearer ${token}`
Authorization(tok) == "Bearer " \o tok

\* the catch block of a handler
ErrorResponse(ep) ==
    IF ep = "token" THEN TokenErrorResponse ELSE ProxyFailureResponse

\* the try block left out of the /api/token handler
HandlerCatches_OnlyFindSlot(ep) == ep = "find-slot"

\* the try block left out of the find-slot handler
HandlerCatches_OnlyToken(ep) == ep = "token"

\* try { ... } catch: both handlers wrap their whole body
HandlerCatches(ep) == ep \in {"token", "find-slot"}

\* ----------------------------------------------------------- slot updates
\* the locals of a handler: where it stands, what getAccessToken returned or
\* threw, and the responses it holds
Locals(r, p, tok, fail, tresp, ups, exp) ==
    /\ pc' = [pc EXCEPT ![r] = p]
    /\ returnedExpiry' = [returnedExpiry EXCEPT ![r] = exp]
    /\ token' = [token EXCEPT ![r] = tok]
    /\ failure' = [failure EXCEPT ![r] = fail]
    /\ tokenResp' = [tokenResp EXCEPT ![r] = tresp]
    /\ upstream' = [upstream EXCEPT ![r] = ups]

\* a request arrives at a handler that is free: the lowest free one serves it
Arrives(r, ep, q) ==
    /\ up
    /\ pc[r] \in {"idle", "done"}
    /\ \A o \in Reqs : o < r => pc[o] \notin {"idle", "done"}
    /\ endpoint' = [endpoint EXCEPT ![r] = ep]
    /\ query' = [query EXCEPT ![r] = q]
    /\ schedCalls' = [schedCalls EXCEPT ![r] = 0]
    /\ bearer' = [bearer EXCEPT ![r] = Null]

\* res sends resp and the handler returns; its locals are gone
Respond(r, fail, resp) ==
    /\ Locals(r, "done", Null, fail, NoStatus, NoUpstream, 0)
    /\ tokenCalls' = [tokenCalls EXCEPT ![r] = 0]
    /\ bearer' = [bearer EXCEPT ![r] = Null]
    /\ response' = [response EXCEPT ![r] = resp]
    /\ responses' = [responses EXCEPT ![r] = @ + 1]
    /\ up' = up

\* an exception reaches the end of the handler's try block: the catch block
\* answers; an exception nothing catches ends the process
Throw(r, fail) ==
    IF HandlerCatches(endpoint[r])
    THEN Respond(r, fail, ErrorResponse(endpoint[r]))
    ELSE /\ Locals(r, "dead", Null, fail, NoStatus, NoUpstream, 0)
         /\ up' = FALSE
         /\ UNCHANGED <<tokenCalls, bearer, response, responses>>

\* ------------------------------------------------------------ getAccessToken
\* lines 35-63: from the call up to the first await, or to the return or throw
BeginGetAccessToken(r) ==
    IF CacheValid(tokenCache, clock)
    THEN /\ Locals(r, "awaitToken", tokenCache.access_token, NoFailure,
                   NoStatus, NoUpstream, tokenCache.expires_at)
         /\ tokenCalls' = [tokenCalls EXCEPT ![r] = 0]
         /\ UNCHANGED lastTokenRequest
    ELSE IF CredentialsMissing(env)
    THEN /\ Locals(r, "awaitToken", Null, "config", NoStatus, NoUpstream, 0)
         /\ tokenCalls' = [tokenCalls EXCEPT ![r] = 0]
         /\ UNCHANGED lastTokenRequest
    ELSE /\ Locals(r, "awaitTokenFetch", Null, NoFailure, NoStatus,
                   NoUpstream, 0)
         /\ tokenCalls' = [tokenCalls EXCEPT ![r] = 1]
         /\ lastTokenRequest' = TokenRequest(env)

\* await fetchFn(tokenUrl, ...) rejects: getAccessToken throws
TokenFetchFails(r) ==
    /\ up /\ pc[r] = "awaitTokenFetch"
    /\ Locals(r, "awaitToken", Null, "tokenTransport", NoStatus, NoUpstream, 0)
    /\ UNCHANGED <<env, clock, tokenCache, up, lastTokenRequest, endpoint, query,
                   tokenCalls, schedCalls, bearer, response, responses>>

\* await fetchFn(tokenUrl, ...) resolves with a response of the given status;
\* lines 64-70 up to the await of resp.text() or of resp.json()
TokenFetchResponds(r, status) ==
    /\ up /\ pc[r] = "awaitTokenFetch"
    /\ Locals(r, IF RespOk(status) THEN "awaitTokenJson" ELSE "awaitTokenText",
              Null, NoFailure, status, NoUpstream, 0)
    /\ UNCHANGED <<env, clock, tokenCache, up, lastTokenRequest, endpoint, query,
                   tokenCalls, schedCalls, bearer, response, responses>>

\* await resp.text().catch(() => '') settles: throw new Error('Token request failed')
TokenTextSettles(r) ==
    /\ up /\ pc[r] = "awaitTokenText"
    /\ Locals(r, "awaitToken", Null, "tokenStatus", NoStatus, NoUpstream, 0)
    /\ UNCHANGED <<env, clock, tokenCache, up, lastTokenRequest, endpoint, query,
                   tokenCalls, schedCalls, bearer, response, responses>>

\* await resp.json() rejects (the body is cut short or is not JSON)
TokenJsonRejects(r) ==
    /\ up /\ pc[r] = "awaitTokenJson"
    /\ Locals(r, "awaitToken", Null, "tokenBody", NoStatus, NoUpstream, 0)
    /\ UNCHANGED <<env, clock, tokenCache, up, lastTokenRequest, endpoint, query,
                   tokenCalls, schedCalls, bearer, response, responses>>

\* await resp.json() resolves with json: lines 71-74
TokenJsonStores(r, json) ==
    /\ up /\ pc[r] = "awaitTokenJson"
    /\ tokenCache' = StoredCache(json, clock)
    /\ Locals(r, "awaitToken", tokenCache'.access_token, NoFailure, NoStatus,
              NoUpstream, tokenCache'.expires_at)
    /\ UNCHANGED <<env, clock, up, lastTokenRequest, endpoint, query, tokenCalls,
                   schedCalls, bearer, response, responses>>

\* ------------------------------------------------------------------ /health
\* res.json({ ok: true, time: ... })
Health(r) ==
    /\ Arrives(r, "health", NoQuery)
    /\ tokenCalls' = [tokenCalls EXCEPT ![r] = 0]
    /\ Locals(r, "done", Null, NoFailure, NoStatus, NoUpstream, 0)
    /\ response' = [response EXCEPT ![r] = HealthResponse]
    /\ responses' = [responses EXCEPT ![r] = 1]
    /\ UNCHANGED <<env, clock, tokenCache, up, lastTokenRequest>>

\* --------------------------------------------------------------- /api/token
\* a request for /api/token arrives: the handler runs up to its await
TokenHandlerStarts(r) ==
    /\ Arrives(r, "token", NoQuery)
    /\ BeginGetAccessToken(r)
    /\ response' = [response EXCEPT ![r] = NoResponse]
    /\ responses' = [responses EXCEPT ![r] = 0]
    /\ UNCHANGED <<env, clock, tokenCache, up>>

\* await getAccessToken() settles in the /api/token handler: lines 80-84
TokenHandlerResumes(r) ==
    /\ up /\ pc[r] = "awaitToken" /\ endpoint[r] = "token"
    /\ IF failure[r] # NoFailure
       THEN Throw(r, failure[r])
       ELSE Respond(r, NoFailure, TokenResponse(token[r], tokenCache))
    /\ UNCHANGED <<env, clock, tokenCache, lastTokenRequest, endpoint, query,
                   schedCalls>>

\* ----------------------------------------------------------- /api/find-slot
\* a request for /api/find-slot arrives with query q: the handler runs up to
\* its first await, the call of getAccessToken
FindSlotStarts(r, q) ==
    /\ Arrives(r, "find-slot", q)
    /\ BeginGetAccessToken(r)
    /\ response' = [response EXCEPT ![r] = NoResponse]
    /\ responses' = [responses EXCEPT ![r] = 0]
    /\ UNCHANGED <<env, clock, tokenCache, up>>

\* await getAccessToken() settles in the find-slot handler: lines 90-108, up
\* to the 400 response, the await of the scheduling call, or the catch block
FindSlotResumes(r) ==
    /\ up /\ pc[r] = "awaitToken" /\ endpoint[r] = "find-slot"
    /\ IF failure[r] # NoFailure
       THEN /\ Throw(r, failure[r])
            /\ UNCHANGED schedCalls
       ELSE IF ParamsMissing(query[r])
       THEN /\ Respond(r, "badRequest", BadRequestResponse)
            /\ UNCHANGED schedCalls
       ELSE /\ schedCalls' = [schedCalls EXCEPT ![r] = @ + 1]
            /\ bearer' = [bearer EXCEPT ![r] = Authorization(token[r])]
            /\ tokenCalls' = [tokenCalls EXCEPT ![r] = 0]
            /\ Locals(r, "awaitUpstreamFetch", Null, NoFailure, NoStatus,
                      NoUpstream, 0)
            /\ UNCHANGED <<response, responses, up>>
    /\ UNCHANGED <<env, clock, tokenCache, lastTokenRequest, endpoint, query>>

\* await fetchFn(url, ...) rejects: the catch block answers
UpstreamFetchFails(r) ==
    /\ up /\ pc[r] = "awaitUpstreamFetch"
    /\ Throw(r, "upstreamTransport")
    /\ UNCHANGED <<env, clock, tokenCache, lastTokenRequest, endpoint, query,
                   schedCalls>>

\* await fetchFn(url, ...) resolves with the status line and headers head
UpstreamFetchResponds(r, head) ==
    /\ up /\ pc[r] = "awaitUpstreamFetch"
    /\ Locals(r, "awaitUpstreamText", Null, NoFailure, NoStatus, head, 0)
    /\ bearer' = [bearer EXCEPT ![r] = Null]
    /\ UNCHANGED <<env, clock, tokenCache, up, lastTokenRequest, endpoint, query,
                   tokenCalls, schedCalls, response, responses>>

\* await upstream.text() rejects: the catch block answers
UpstreamTextRejects(r) ==
    /\ up /\ pc[r] = "awaitUpstreamText"
    /\ Throw(r, "upstreamBody")
    /\ UNCHANGED <<env, clock, tokenCache, lastTokenRequest, endpoint, query,
                   schedCalls>>

\* await upstream.text() resolves with text: lines 111-115
UpstreamTextRelays(r, text) ==
    /\ up /\ pc[r] = "awaitUpstreamText"
    /\ Respond(r, NoFailure, RelayResponse(upstream[r], text))
    /\ UNCHANGED <<env, clock, tokenCache, lastTokenRequest, endpoint, query,
                   schedCalls>>

\* -------------------------------------------------------------------- time
\* Date.now() moves on
Tick ==
    /\ up /\ clock < StartMs + MaxTicks * TickMs
    /\ clock' = clock + TickMs
    /\ UNCHANGED <<env, tokenCache, up, lastTokenRequest, pc, endpoint, query,
                   token, failure, tokenCalls, schedCalls, bearer, tokenResp,
                   upstream, response, responses, returnedExpiry>>

Next ==
    \/ Tick
    \/ \E r \in Reqs : Health(r)
    \/ \E r \in Reqs : TokenHandlerStarts(r)
    \/ \E r \in Reqs : TokenHandlerResumes(r)
    \/ \E r \in Reqs, q \in Queries : FindSlotStarts(r, q)
    \/ \E r \in Reqs : FindSlotResumes(r)
    \/ \E r \in Reqs : TokenFetchFails(r)
    \/ \E r \in Reqs, s \in TokenStatuses : TokenFetchResponds(r, s)
    \/ \E r \in Reqs : TokenTextSettles(r)
    \/ \E r \in Reqs : TokenJsonRejects(r)
    \/ \E r \in Reqs, j \in TokenJsons : TokenJsonStores(r, j)
    \/ \E r \in Reqs : UpstreamFetchFails(r)
    \/ \E r \in Reqs, h \in UpstreamHeads : UpstreamFetchResponds(r, h)
    \/ \E r \in Reqs : UpstreamTextRejects(r)
    \/ \E r \in Reqs, b \in UpstreamBodies : UpstreamTextRelays(r, b)

Spec == Init /\ [][Next]_vars

\* a promise that handler r awaits settles: an outbound call completes, with
\* a response or a transport error, a body is read, or getAccessToken
\* returns to the handler
Settles(r) ==
    \/ TokenFetchFails(r)
    \/ \E s \in TokenStatuses : TokenFetchResponds(r, s)
    \/ TokenTextSettles(r)
    \/ TokenJsonRejects(r)
    \/ \E j \in TokenJsons : TokenJsonStores(r, j)
    \/ TokenHandlerResumes(r)
    \/ FindSlotResumes(r)
    \/ UpstreamFetchFails(r)
    \/ \E h \in UpstreamHeads : UpstreamFetchResponds(r, h)
    \/ UpstreamTextRejects(r)
    \/ \E b \in UpstreamBodies : UpstreamTextRelays(r, b)

\* the process started with token URL and client id configured (they enter
\* no condition of the code, only the request sent)
ConfiguredInit == Init /\ env # EnvDefaults

\* the outbound calls of handler 2 complete; those of handler 1 may hang
\* for ever (no timeout, no cancellation)
HungSpec == ConfiguredInit /\ [][Next]_vars /\ WF_vars(Settles(2))

\* ================================================================== claims
\* r calls getAccessToken in this step (a request for /api/token or
\* /api/find-slot arrives)
CallsGetToken(r) ==
    /\ pc[r] \in {"idle", "done"}
    /\ pc'[r] \in {"awaitToken", "awaitTokenFetch"}

\* r takes a step
Moves(r) == pc'[r] # pc[r]

\* Token State holds a token and the time is strictly less than expires_at
\* minus 60 seconds
HoldsFreshToken ==
    /\ tokenCache.access_token \notin {Null, Undefined, ""}
    /\ clock < tokenCache.expires_at - 60 * 1000

\* client secret, username and password are all set in the configuration
CredentialsSet ==
    /\ env.CS_CLIENT_SECRET \notin {Undefined, ""}
    /\ env.CS_USERNAME \notin {Undefined, ""}
    /\ env.CS_PASSWORD \notin {Undefined, ""}

\* C1: a call of getAccessToken made while Token State holds a token and the
\* time is strictly less than expires_at minus 60 seconds returns the cached
\* token, sends nothing to the token endpoint and leaves Token State as it is.
C1_CacheHit ==
    [][\A r \in Reqs :
        (CallsGetToken(r) /\ HoldsFreshToken)
        => /\ pc'[r] = "awaitToken"
           /\ failure'[r] = NoFailure
           /\ token'[r] = tokenCache.access_token
           /\ tokenCalls'[r] = 0
           /\ lastTokenRequest' = lastTokenRequest
           /\ tokenCache' = tokenCache]_vars

\* a handler holds the cached token, got without a call, and the cache is
\* still fresh
C1_Witness ==
    \E r \in Reqs :
        /\ pc[r] = "awaitToken" /\ failure[r] = NoFailure
        /\ tokenCalls[r] = 0
        /\ token[r] \in AccessTokens /\ token[r] = tokenCache.access_token
        /\ HoldsFreshToken

\* C2: with the credentials configured, a call of getAccessToken made when
\* Token State holds no token, or the time is at or past expires_at minus 60
\* seconds, sends exactly one request to the token endpoint; no step of the
\* call sends another; when the response is read, token and expiry are
\* written in one step, both from that response, and the token written is
\* the one returned; no other step changes either field.
C2_Refresh ==
    [][/\ \A r \in Reqs :
            /\ (CallsGetToken(r) /\ ~HoldsFreshToken /\ CredentialsSet)
               => /\ pc'[r] = "awaitTokenFetch"
                  /\ tokenCalls'[r] = 1
                  /\ lastTokenRequest'.grant_type = "password"
                  /\ tokenCache' = tokenCache
            /\ (pc[r] \in {"awaitTokenFetch", "awaitTokenText", "awaitTokenJson"}
                /\ Moves(r))
               => tokenCalls[r] = 1 /\ tokenCalls'[r] = 1
            /\ (pc[r] = "awaitTokenJson" /\ pc'[r] = "awaitToken"
                /\ failure'[r] = NoFailure)
               => \E j \in TokenJsons :
                     /\ tokenCache' = StoredCache(j, clock)
                     /\ token'[r] = j.access_token
       /\ tokenCache' # tokenCache
          => \E r \in Reqs :
                /\ pc[r] = "awaitTokenJson" /\ pc'[r] = "awaitToken"
                /\ failure'[r] = NoFailure
                /\ tokenCache'.access_token = token'[r]]_vars

\* a call that found a stale token has replaced it: the handler holds the
\* new token after one call, and the cache holds that token with an expiry
\* set at the present time
C2_Witness ==
    \E r \in Reqs :
        /\ pc[r] = "awaitToken" /\ failure[r] = NoFailure
        /\ tokenCalls[r] = 1
        /\ token[r] = "tokB" /\ tokenCache.access_token = "tokB"
        /\ tokenCache.expires_at = clock + 150 * 1000
        /\ clock > StartMs

\* C3: when the token endpoint answers with a status outside 200..299 or the
\* call fails in transport, getAccessToken takes the failing path, throws to
\* its handler, which answers 500, and no step of that path changes Token
\* State; the failed call returns no token.
C3_FailedFetchKeepsCache ==
    [][\A r \in Reqs :
        /\ (pc[r] = "awaitTokenFetch" /\ Moves(r))
           => /\ tokenCache' = tokenCache
              /\ (tokenResp'[r] = NoStatus)
                 => /\ pc'[r] = "awaitToken"
                    /\ failure'[r] = "tokenTransport"
                    /\ token'[r] = Null
              /\ (tokenResp'[r] # NoStatus
                  /\ ~(tokenResp'[r] >= 200 /\ tokenResp'[r] <= 299))
                 => pc'[r] = "awaitTokenText"
        /\ (pc[r] = "awaitTokenText" /\ Moves(r))
           => /\ tokenCache' = tokenCache
              /\ pc'[r] = "awaitToken"
              /\ failure'[r] = "tokenStatus"
              /\ token'[r] = Null
        /\ (pc[r] = "awaitToken" /\ Moves(r)
            /\ failure[r] \in {"tokenTransport", "tokenStatus", "tokenBody"})
           => /\ tokenCache' = tokenCache
              /\ pc'[r] = "done"
              /\ failure'[r] = failure[r]
              /\ response'[r].status = 500]_vars

\* a call that found a stale token was refused by the token endpoint: the
\* stale token is still in Token State and a call made now would not use it
C3_Witness ==
    \E r \in Reqs :
        /\ pc[r] = "awaitToken" /\ failure[r] = "tokenStatus"
        /\ tokenCalls[r] = 1
        /\ tokenCache.access_token \in AccessTokens
        /\ ~HoldsFreshToken

\* C4: when getAccessToken needs a refresh and the client secret, the
\* username or the password is unset, it throws the missing-credentials error
\* without sending anything to the token endpoint and without touching Token
\* State; with those three set, an unset token URL or client id is no
\* failure: the request goes to the default URL with the default client id.
C4_MissingCredentials ==
    [][\A r \in Reqs :
        /\ (CallsGetToken(r) /\ ~HoldsFreshToken /\ ~CredentialsSet)
           => /\ pc'[r] = "awaitToken"
              /\ failure'[r] = "config"
              /\ token'[r] = Null
              /\ tokenCalls'[r] = 0
              /\ lastTokenRequest' = lastTokenRequest
              /\ tokenCache' = tokenCache
        /\ (CallsGetToken(r) /\ ~HoldsFreshToken /\ CredentialsSet)
           => /\ failure'[r] = NoFailure
              /\ tokenCalls'[r] = 1
              /\ lastTokenRequest'.url =
                    IF env.CS_TOKEN_URL \in {Undefined, ""}
                    THEN "https://id.carestack.ie/connect/token"
                    ELSE env.CS_TOKEN_URL
              /\ lastTokenRequest'.client_id =
                    IF env.CS_CLIENT_ID \in {Undefined, ""}
                    THEN "dentaltech_api_client"
                    ELSE env.CS_CLIENT_ID]_vars

\* the password is unset and a call of getAccessToken has thrown the
\* missing-credentials error: nothing was sent, Token State is still empty
C4_Witness ==
    \E r \in Reqs :
        /\ env.CS_PASSWORD \in {Undefined, ""}
        /\ pc[r] = "awaitToken" /\ failure[r] = "config"
        /\ tokenCalls[r] = 0
        /\ lastTokenRequest = NoTokenRequest
        /\ tokenCache = EmptyCache

\* C5: a find-slot request with one of the four parameters missing is
\* answered with status 400, whatever the token cache holds and whatever the
\* token endpoint does.
C5_MissingParamIs400 ==
    \A r \in Reqs :
        (pc[r] = "done" /\ endpoint[r] = "find-slot" /\ query[r] # Params)
        => response[r].status = 400

\* C6: while a find-slot request with one of the four parameters missing is
\* handled, nothing is sent to the token endpoint or to the scheduling
\* endpoint.
C6_MissingParamNoUpstreamCall ==
    \A r \in Reqs :
        (endpoint[r] = "find-slot" /\ query[r] # Params)
        => tokenCalls[r] = 0 /\ schedCalls[r] = 0

\* C7: a find-slot request with all four parameters whose getAccessToken
\* failed is answered with status 500 and an error payload, once, and
\* nothing is sent to the scheduling endpoint for it.
C7_TokenFailureIs500 ==
    [][\A r \in Reqs :
        (pc[r] = "awaitToken" /\ endpoint[r] = "find-slot" /\ query[r] = Params
         /\ failure[r] # NoFailure /\ Moves(r))
        => /\ pc'[r] = "done"
           /\ response'[r].status = 500
           /\ response'[r].content_type = "application/json; charset=utf-8"
           /\ response'[r].body = "{error,detail}"
           /\ responses'[r] = 1
           /\ schedCalls[r] = 0 /\ schedCalls'[r] = 0
           /\ bearer'[r] = Null]_vars

\* a find-slot request with all four parameters, refused by the token
\* endpoint, has been answered 500 and made no scheduling call
C7_Witness ==
    \E r \in Reqs :
        /\ pc[r] = "done" /\ endpoint[r] = "find-slot" /\ query[r] = Params
        /\ failure[r] = "tokenStatus"
        /\ response[r].status = 500 /\ response[r].body = "{error,detail}"
        /\ schedCalls[r] = 0

\* C8: when the body of the upstream response has been read, the relay
\* answers with the upstream status, the upstream content type if there is
\* one and the JSON default otherwise, and the body as read.
C8_RelaysVerbatim ==
    [][\A r \in Reqs :
        (pc[r] = "awaitUpstreamText" /\ pc'[r] = "done"
         /\ failure'[r] = NoFailure)
        => \E b \in UpstreamBodies :
              response'[r] =
                 [status |-> upstream[r].status,
                  content_type |->
                     IF upstream[r].content_type = Null
                     THEN "application/json; charset=utf-8"
                     ELSE upstream[r].content_type,
                  body |-> b, access_token |-> Null, expires_at |-> 0]]_vars

\* an upstream 404 with its own content type and body has been relayed
C8_Witness ==
    \E r \in Reqs :
        /\ pc[r] = "done" /\ endpoint[r] = "find-slot"
        /\ failure[r] = NoFailure /\ schedCalls[r] = 1
        /\ response[r].status = 404
        /\ response[r].content_type = "text/html"
        /\ response[r].body = "oops"

\* C9: when the token response carries no expires_in, the expiry stored is
\* the time of storing plus 300 seconds.
C9_DefaultExpiry ==
    [][\A r \in Reqs, j \in TokenJsons :
        (~j.has_expires_in /\ TokenJsonStores(r, j))
        => tokenCache'.expires_at = clock + 300 * 1000]_vars

\* a token response without expires_in (here also without access_token, which
\* in the inputs only such a response lacks) has been stored with an expiry
\* 300 seconds from now
C9_Witness ==
    \E r \in Reqs :
        /\ pc[r] = "awaitToken" /\ failure[r] = NoFailure
        /\ tokenCalls[r] = 1
        /\ token[r] = Undefined /\ tokenCache.access_token = Undefined
        /\ tokenCache.expires_at = clock + 300 * 1000

\* C10: every failure in the two handlers ends in exactly one JSON error
\* response: 400 when the handler found a parameter missing, 500 for every
\* other failure; a failure is never followed by another call to either
\* endpoint for the same request, a handler that has failed answers in its
\* next step, and the process keeps running.
C10_FailuresAnswered ==
    /\ [](/\ up
          /\ \A r \in Reqs :
                /\ responses[r] <= 1 /\ tokenCalls[r] <= 1 /\ schedCalls[r] <= 1
                /\ pc[r] # "dead"
                /\ pc[r] = "done" => responses[r] = 1
                /\ failure[r] # NoFailure => pc[r] \in {"awaitToken", "done"}
                /\ (pc[r] = "done" /\ failure[r] # NoFailure)
                   => /\ response[r].content_type =
                            "application/json; charset=utf-8"
                      /\ response[r].body \in {"{error}", "{error,detail}"}
                      /\ response[r].status =
                            IF failure[r] = "badRequest" THEN 400 ELSE 500)
    /\ [][\A r \in Reqs :
            (failure[r] # NoFailure /\ pc[r] = "awaitToken" /\ Moves(r))
            => /\ pc'[r] = "done"
               /\ responses'[r] = 1
               /\ tokenCalls'[r] = 0 /\ schedCalls'[r] = 0
               /\ lastTokenRequest' = lastTokenRequest]_vars

\* one request failed reading the upstream body and was answered 500, and
\* the server is serving another request
C10_Witness ==
    \E r, o \in Reqs :
        /\ pc[r] = "done" /\ failure[r] = "upstreamBody"
        /\ response[r].status = 500 /\ responses[r] = 1
        /\ o # r /\ pc[o] = "awaitUpstreamFetch"
        /\ up

\* r reads the body of a 2xx token response and stores it in this step
Stores(r) ==
    /\ pc[r] = "awaitTokenJson" /\ pc'[r] = "awaitToken"
    /\ failure'[r] = NoFailure

\* another handler is waiting for the token endpoint
OtherRefreshing(r) ==
    \E o \in Reqs \ {r} :
        pc[o] \in {"awaitTokenFetch", "awaitTokenText", "awaitTokenJson"}

\* C11: a call of getAccessToken that finds Token State empty or stale while
\* another call is already waiting for the token endpoint sends its own
\* request (refreshes are neither coalesced nor queued), and every store
\* step overwrites Token State with the token and expiry of the response it
\* read, whatever Token State held: the last store wins, also when its
\* response carries an earlier expiry than the one stored before.
C11_LastWriteWins ==
    [][\A r \in Reqs :
        /\ (CallsGetToken(r) /\ ~HoldsFreshToken /\ CredentialsSet
            /\ OtherRefreshing(r))
           => /\ pc'[r] = "awaitTokenFetch"
              /\ tokenCalls'[r] = 1
              /\ \A o \in Reqs \ {r} : pc'[o] = pc[o] /\ tokenCalls'[o] = tokenCalls[o]
        /\ \A j \in TokenJsons :
              (TokenJsonStores(r, j) /\ ~(j.has_expires_in /\ j.expires_in = 0))
              => /\ tokenCache'.access_token = j.access_token
                 /\ tokenCache'.expires_at =
                       clock + 1000 * (IF j.has_expires_in THEN j.expires_in
                                       ELSE 300)]_vars

\* two overlapping refreshes have both stored: each handler holds the token
\* of its own response, and Token State holds the second one, whose expiry
\* (150 s from now) is earlier than that of the first (300 s from now)
C11_Witness ==
    \E r, o \in Reqs :
        /\ r # o
        /\ pc[r] = "awaitToken" /\ pc[o] = "awaitToken"
        /\ tokenCalls[r] = 1 /\ tokenCalls[o] = 1
        /\ token[r] = "tokA" /\ returnedExpiry[r] = clock + 300 * 1000
        /\ token[o] = "tokB" /\ returnedExpiry[o] = clock + 150 * 1000
        /\ tokenCache = [access_token |-> "tokB",
                         expires_at |-> clock + 150 * 1000]

\* C12: the expires_at of a 200 response of /api/token is the expiry that
\* was in Token State with the access_token of that response when
\* getAccessToken returned it.
C12_TokenResponseExpiry ==
    [][\A r \in Reqs :
        (pc[r] = "awaitToken" /\ endpoint[r] = "token"
         /\ failure[r] = NoFailure /\ Moves(r))
        => /\ response'[r].status = 200
           /\ response'[r].access_token = token[r]
           /\ response'[r].expires_at = returnedExpiry[r]]_vars

\* C13: Token State starts empty, and a step changes it only if it is the
\* store step of a token fetch that got a 2xx response, which writes both
\* fields from that response; every other step leaves both fields alone.
C13_OnlyStoreChangesCache ==
    /\ tokenCache = [access_token |-> Null, expires_at |-> 0]
    /\ [][\/ tokenCache' = tokenCache
          \/ \E r \in Reqs :
                /\ Stores(r)
                /\ tokenResp[r] >= 200 /\ tokenResp[r] <= 299
                /\ \E j \in TokenJsons :
                      /\ tokenCache'.access_token = j.access_token
                      /\ tokenCache'.expires_at
                            \in {clock + 1000 * j.expires_in,
                                 clock + 1000 * 300}]_vars

\* Token State holds a stored token while one handler has answered /health
\* and the other has answered 400
C13_Witness ==
    \E r, o \in Reqs :
        /\ tokenCache.access_token \in AccessTokens
        /\ tokenCache.expires_at > StartMs
        /\ pc[r] = "done" /\ endpoint[r] = "health"
        /\ pc[o] = "done" /\ failure[o] = "badRequest"

\* C14: if Token State holds no token then expires_at is still 0; whenever
\* expires_at has been set, Token State holds a non-empty token.
C14_ExpiryOnlyWithToken ==
    /\ tokenCache.access_token \in {Null, Undefined, ""}
       => tokenCache.expires_at = 0
    /\ tokenCache.expires_at # 0
       => tokenCache.access_token \notin {Null, Undefined, ""}

\* C15: a store step whose response carries expires_in stores
\* expires_at = now + expires_in seconds, for every value of expires_in.
C15_ExpiryFromResponse ==
    [][\A r \in Reqs, j \in TokenJsons :
        (j.has_expires_in /\ TokenJsonStores(r, j))
        => tokenCache'.expires_at = clock + j.expires_in * 1000]_vars

\* C16: a find-slot request sends at most one request to the scheduling
\* endpoint; it sends it only in the step in which its handler resumes from
\* a getAccessToken that returned a token, with all four parameters present,
\* and the Bearer token of that request is the value getAccessToken
\* returned, whatever Token State holds by then.
C16_OneCallWithReturnedToken ==
    [][\A r \in Reqs :
        /\ schedCalls'[r] <= 1
        /\ bearer'[r] # bearer[r] /\ bearer'[r] # Null
           => schedCalls'[r] = schedCalls[r] + 1
        /\ schedCalls'[r] > schedCalls[r]
           => /\ pc[r] = "awaitToken" /\ endpoint[r] = "find-slot"
              /\ failure[r] = NoFailure
              /\ query[r] = Params
              /\ schedCalls[r] = 0
              /\ pc'[r] = "awaitUpstreamFetch"
              /\ bearer'[r] = "Bearer " \o token[r]]_vars

\* a scheduling call is in flight with the token its request got, while
\* Token State already holds another token
C16_Witness ==
    \E r \in Reqs :
        /\ pc[r] = "awaitUpstreamFetch" /\ schedCalls[r] = 1
        /\ bearer[r] = "Bearer tokA"
        /\ tokenCache.access_token = "tokB"

\* r is handling a request that has no response yet
InFlight(r) == pc[r] \notin {"idle", "done"}

\* the request r handled has its one response
Answered(r) == pc[r] = "done" /\ responses[r] = 1

\* C17: a request whose own awaited promises all settle gets its one
\* response, whatever the other handler does: with the calls of handler 1
\* free to hang for ever, every request of handler 2 (it arrives while
\* handler 1 is busy, and may need a refresh) is answered; and if the calls
\* of handler 1 complete as well, every request of handler 1 is answered.
C17_EveryRequestAnswered ==
    /\ InFlight(2) ~> Answered(2)
    /\ WF_vars(Settles(1)) => (InFlight(1) ~> Answered(1))

\* handler 1 is still waiting for the token endpoint while handler 2, which
\* arrived later and made its own refresh, has answered 200
C17_Witness ==
    /\ pc[1] = "awaitTokenFetch"
    /\ pc[2] = "done" /\ endpoint[2] = "token" /\ responses[2] = 1
    /\ response[2].status = 200 /\ response[2].access_token \in AccessTokens
    /\ tokenCache.access_token = response[2].access_token

====
